---- MODULE Spec2Model ----
(***************************************************************************)
(* SHL assessment recommender: the recommendation engine                   *)
(* (engine2.py, SHLRecommendationEngine.recommend), the service layer in   *)
(* front of it (api.py), the page that submits queries (app.py) and the    *)
(* transform step of the catalog (modification.py).                        *)
(*                                                                         *)
(* Three specifications share the module: Spec follows one request at a    *)
(* time through the service and the engine, SpecInit follows get_engine    *)
(* under concurrent requests, SpecTransform follows the rows of the        *)
(* catalog through the transform step.                                     *)
(*                                                                         *)
(* Text is modelled as a sequence of lexical tokens.  Whitespace between   *)
(* tokens is not represented: every regular expression of recommend allows *)
(* white space wherever JSON allows it.  A string token stands for a       *)
(* double-quoted run of characters holding no quote, brace or bracket.     *)
(*                                                                         *)
(* Python values are tagged records with the same five fields, so that     *)
(* any two of them can be compared:                                        *)
(*   k  the Python type: "dict" "list" "str" "int" "float" "bool" "none"   *)
(*   s  the text of a str (for a float: "" finite, "inf", "nan")           *)
(*   n  the number of an int / bool, the integer part of a float           *)
(*   l  the elements of a list                                             *)
(*   d  the entries of a dict, in insertion order, as [key, val] records   *)
(***************************************************************************)
EXTENDS Integers, Sequences, FiniteSets, TLC

----------------------------------------------------------------------------
(* Tokens *)

Tok(t, s, n) == [t |-> t, s |-> s, n |-> n]

LB == Tok("{", "", 0)
RB == Tok("}", "", 0)
LS == Tok("[", "", 0)
RS == Tok("]", "", 0)
COMMA == Tok(",", "", 0)
COLON == Tok(":", "", 0)
FenceOpen == Tok("fence_open", "", 0)
FenceClose == Tok("fence", "", 0)
Prose == Tok("prose", "", 0)
TStr(s) == Tok("str", s, 0)
TInt(n) == Tok("int", "", n)
\* a JSON number with a fraction part: n is its integer part, n >= 0
TFloat(n) == Tok("float", "", n)
\* true, false, null, Infinity, NaN
TLit(s) == Tok("lit", s, 0)

----------------------------------------------------------------------------
(* Python values *)

VStr(s) == [k |-> "str", s |-> s, n |-> 0, l |-> <<>>, d |-> <<>>]
VInt(n) == [k |-> "int", s |-> "", n |-> n, l |-> <<>>, d |-> <<>>]
VFloat(n, s) == [k |-> "float", s |-> s, n |-> n, l |-> <<>>, d |-> <<>>]
VBool(b) == [k |-> "bool", s |-> "", n |-> IF b THEN 1 ELSE 0, l |-> <<>>, d |-> <<>>]
VNone == [k |-> "none", s |-> "", n |-> 0, l |-> <<>>, d |-> <<>>]
VList(l) == [k |-> "list", s |-> "", n |-> 0, l |-> l, d |-> <<>>]
VDict(d) == [k |-> "dict", s |-> "", n |-> 0, l |-> <<>>, d |-> d]

Entry(key, val) == [key |-> key, val |-> val]

\* key in d, for a dict
HasKey(v, key) == \E i \in 1..Len(v.d) : v.d[i].key = key

\* d[key], for a dict that has the key
Get(v, key) == v.d[CHOOSE i \in 1..Len(v.d) : v.d[i].key = key].val

\* d[key] = val: an existing key keeps its place, a new key goes last
Put(v, key, val) ==
    IF HasKey(v, key)
    THEN VDict([i \in 1..Len(v.d) |->
                  IF v.d[i].key = key THEN Entry(key, val) ELSE v.d[i]])
    ELSE VDict(Append(v.d, Entry(key, val)))

\* the dict left by d.pop(key)
Without(v, key) == VDict(SelectSeq(v.d, LAMBDA e : e.key # key))

----------------------------------------------------------------------------
(* json.loads over tokens *)

ParseFail == [ok |-> FALSE, val |-> VNone, pos |-> 0]
ParseOk(v, p) == [ok |-> TRUE, val |-> v, pos |-> p]

LitValue(s) ==
    CASE s = "true" -> VBool(TRUE)
      [] s = "false" -> VBool(FALSE)
      [] s = "null" -> VNone
      [] s = "Infinity" -> VFloat(0, "inf")
      [] OTHER -> VFloat(0, "nan")

RECURSIVE ParseValue(_, _), ParseElems(_, _, _), ParseMembers(_, _, _)

ParseValue(toks, i) ==
    IF i > Len(toks) THEN ParseFail
    ELSE LET tk == toks[i] IN
      CASE tk.t = "str" -> ParseOk(VStr(tk.s), i + 1)
        [] tk.t = "int" -> ParseOk(VInt(tk.n), i + 1)
        [] tk.t = "float" -> ParseOk(VFloat(tk.n, ""), i + 1)
        [] tk.t = "lit" -> ParseOk(LitValue(tk.s), i + 1)
        [] tk.t = "[" ->
             IF i + 1 <= Len(toks) /\ toks[i + 1].t = "]"
             THEN ParseOk(VList(<<>>), i + 2)
             ELSE ParseElems(toks, i + 1, <<>>)
        [] tk.t = "{" ->
             IF i + 1 <= Len(toks) /\ toks[i + 1].t = "}"
             THEN ParseOk(VDict(<<>>), i + 2)
             ELSE ParseMembers(toks, i + 1, VDict(<<>>))
        [] OTHER -> ParseFail

\* the elements of an array from position i on, acc being those already read
ParseElems(toks, i, acc) ==
    LET r == ParseValue(toks, i) IN
    IF ~r.ok \/ r.pos > Len(toks) THEN ParseFail
    ELSE IF toks[r.pos].t = "," THEN ParseElems(toks, r.pos + 1, Append(acc, r.val))
    ELSE IF toks[r.pos].t = "]" THEN ParseOk(VList(Append(acc, r.val)), r.pos + 1)
    ELSE ParseFail

\* the members of an object from position i on; a repeated key keeps the last value
ParseMembers(toks, i, acc) ==
    IF i + 1 > Len(toks) \/ toks[i].t # "str" \/ toks[i + 1].t # ":" THEN ParseFail
    ELSE LET r == ParseValue(toks, i + 2) IN
      IF ~r.ok \/ r.pos > Len(toks) THEN ParseFail
      ELSE IF toks[r.pos].t = ","
           THEN ParseMembers(toks, r.pos + 1, Put(acc, toks[i].s, r.val))
      ELSE IF toks[r.pos].t = "}"
           THEN ParseOk(Put(acc, toks[i].s, r.val), r.pos + 1)
      ELSE ParseFail

\* json.loads(json_str): the whole text must be one JSON value
json_loads(toks) ==
    LET r == ParseValue(toks, 1) IN
    IF r.ok /\ r.pos = Len(toks) + 1 THEN [ok |-> TRUE, val |-> r.val]
    ELSE [ok |-> FALSE, val |-> VNone]

----------------------------------------------------------------------------
(* The regular expressions of recommend, over tokens *)

Min(S) == CHOOSE x \in S : \A y \in S : x <= y

IsFence(tk) == tk.t = "fence_open" \/ tk.t = "fence"

\* re.search of the fenced-block pattern: the leftmost opening fence that has
\* a fence after it, and lazily the text up to the nearest such fence (the
\* three backquotes of the closing pattern also match the start of an
\* opening fence)
FenceSearch(raw) ==
    LET starts == {i \in 1..Len(raw) :
                     /\ raw[i].t = "fence_open"
                     /\ \E j \in (i + 1)..Len(raw) : IsFence(raw[j])}
    IN IF starts = {} THEN [found |-> FALSE, group |-> <<>>]
       ELSE LET i == Min(starts)
                j == Min({x \in (i + 1)..Len(raw) : IsFence(raw[x])})
            IN [found |-> TRUE, group |-> SubSeq(raw, i + 1, j - 1)]

\* re.search(json_pattern, text, re.DOTALL): an opening brace, the key
\* "recommended_assessments", a colon, an opening bracket, then lazily up to
\* the first closing bracket that a closing brace follows
StructureSearch(text) ==
    LET ends(i) == {j \in (i + 4)..(Len(text) - 1) :
                      text[j].t = "]" /\ text[j + 1].t = "}"}
        starts == {i \in 1..Len(text) :
                     /\ i + 3 <= Len(text)
                     /\ text[i].t = "{"
                     /\ text[i + 1] = TStr("recommended_assessments")
                     /\ text[i + 2].t = ":"
                     /\ text[i + 3].t = "["
                     /\ ends(i) # {}}
    IN IF starts = {} THEN [found |-> FALSE, group |-> <<>>]
       ELSE LET i == Min(starts)
            IN [found |-> TRUE, group |-> SubSeq(text, i + 4, Min(ends(i)) - 1)]

\* re.findall(item_pattern, text, re.DOTALL) from position p on: each opening
\* brace with, lazily, the text up to the next closing brace
RECURSIVE FindItems(_, _)
FindItems(text, p) ==
    LET starts == {i \in p..Len(text) :
                     /\ text[i].t = "{"
                     /\ \E j \in (i + 1)..Len(text) : text[j].t = "}"}
    IN IF starts = {} THEN <<>>
       ELSE LET i == Min(starts)
                j == Min({x \in (i + 1)..Len(text) : text[x].t = "}"})
            IN <<SubSeq(text, i + 1, j - 1)>> \o FindItems(text, j + 1)

\* the strings that re.findall of a quoted non-empty run finds in types_str
RECURSIVE QuotedStrings(_)
QuotedStrings(text) ==
    IF text = <<>> THEN <<>>
    ELSE IF Head(text).t = "str" /\ Head(text).s # ""
         THEN <<VStr(Head(text).s)>> \o QuotedStrings(Tail(text))
         ELSE QuotedStrings(Tail(text))

\* the test_type field of an item: the key, a colon, an opening bracket and
\* lazily the text up to the next closing bracket; [] when there is no match
FallbackTestType(item) ==
    LET starts == {i \in 1..Len(item) :
                     /\ i + 2 <= Len(item)
                     /\ item[i] = TStr("test_type")
                     /\ item[i + 1].t = ":"
                     /\ item[i + 2].t = "["
                     /\ \E j \in (i + 3)..Len(item) : item[j].t = "]"}
    IN IF starts = {} THEN VList(<<>>)
       ELSE LET i == Min(starts)
                j == Min({x \in (i + 3)..Len(item) : item[x].t = "]"})
            IN VList(QuotedStrings(SubSeq(item, i + 3, j - 1)))

\* the duration field of an item: the key, a colon and a run of digits (the
\* digits before the point of a number with a fraction); 0 when no match
FallbackDuration(item) ==
    LET starts == {i \in 1..Len(item) :
                     /\ i + 2 <= Len(item)
                     /\ item[i] = TStr("duration")
                     /\ item[i + 1].t = ":"
                     /\ item[i + 2].t \in {"int", "float"}
                     /\ item[i + 2].n >= 0}
    IN IF starts = {} THEN VInt(0)
       ELSE VInt(item[Min(starts) + 2].n)

\* a string field of an item: the key, a colon and a quoted string; "" when
\* there is no match
FallbackString(item, field) ==
    LET starts == {i \in 1..Len(item) :
                     /\ i + 2 <= Len(item)
                     /\ item[i] = TStr(field)
                     /\ item[i + 1].t = ":"
                     /\ item[i + 2].t = "str"}
    IN IF starts = {} THEN VStr("")
       ELSE VStr(item[Min(starts) + 2].s)

\* the record the field loop builds from one item
FallbackRecord(item) ==
    VDict(<<Entry("url", FallbackString(item, "url")),
            Entry("adaptive_support", FallbackString(item, "adaptive_support")),
            Entry("description", FallbackString(item, "description")),
            Entry("duration", FallbackDuration(item)),
            Entry("remote_support", FallbackString(item, "remote_support")),
            Entry("test_type", FallbackTestType(item))>>)

\* the records of the items, those with an empty url left out
RECURSIVE FallbackRecords(_)
FallbackRecords(items) ==
    IF items = <<>> THEN <<>>
    ELSE LET rec == FallbackRecord(Head(items)) IN
         (IF Get(rec, "url") # VStr("") THEN <<rec>> ELSE <<>>)
            \o FallbackRecords(Tail(items))

\* the except branch of the strict parse: the fallback extraction
FallbackParse(raw_response) ==
    LET match == StructureSearch(raw_response) IN
    IF match.found
    THEN VDict(<<Entry("recommended_assessments",
                       VList(FallbackRecords(FindItems(match.group, 1))))>>)
    ELSE VDict(<<Entry("recommended_assessments", VList(<<>>))>>)

\* lines 120-185: the payload extracted from the reply
ExtractPayload(raw_response) ==
    LET json_match == FenceSearch(raw_response)
        json_str == IF json_match.found THEN json_match.group ELSE raw_response
        strict == json_loads(json_str)
    IN IF strict.ok THEN strict.val ELSE FallbackParse(raw_response)

----------------------------------------------------------------------------
(* Python operations recommend applies to the parsed payload.  An operation
   that can raise returns [exc, val]: exc is "" or the exception raised. *)

Done(v) == [exc |-> "", val |-> v]
Raise(e) == [exc |-> e, val |-> VNone]

\* Strings are atoms; the few whose characters matter are spelled out.
\* hay contains needle as a substring
Contains(hay, needle) ==
    \/ hay = needle
    \/ <<hay, needle>> \in {<<"my recommendations", "recommendations">>,
                            <<"no duration", "duration">>}

\* the characters of the strings the model slices and iterates
Chars(s) ==
    CASE s = "" -> <<>>
      [] s = "ab" -> <<"a", "b">>
      [] OTHER -> <<s>>

\* the string of a sequence of characters
StrOf(cs) ==
    CASE cs = <<>> -> ""
      [] cs = <<"a", "b">> -> "ab"
      [] OTHER -> cs[1]

\* int(s) for a string: the texts that are integer literals, and their values
IntTexts == {"30", "-5"}
IntOfText(s) == IF s = "30" THEN 30 ELSE 0 - 5

\* needle in v, for a string needle
PyIn(needle, v) ==
    CASE v.k = "dict" -> Done(HasKey(v, needle))
      [] v.k = "list" -> Done(\E i \in 1..Len(v.l) : v.l[i] = VStr(needle))
      [] v.k = "str" -> Done(Contains(v.s, needle))
      [] OTHER -> Raise("TypeError")

\* seq[:m + 1] where seq[:m] is meant
SliceOneMore(seq, m) ==
    IF m >= 0
    THEN SubSeq(seq, 1, IF m + 1 < Len(seq) THEN m + 1 ELSE Len(seq))
    ELSE SubSeq(seq, 1, IF Len(seq) + m > 0 THEN Len(seq) + m ELSE 0)

\* seq[:m]
Slice(seq, m) ==
    IF m >= 0
    THEN SubSeq(seq, 1, IF m < Len(seq) THEN m ELSE Len(seq))
    ELSE SubSeq(seq, 1, IF Len(seq) + m > 0 THEN Len(seq) + m ELSE 0)

\* v[:m]
PySlice(v, m) ==
    CASE v.k = "list" -> Done(VList(Slice(v.l, m)))
      [] v.k = "str" -> Done(VStr(StrOf(Slice(Chars(v.s), m))))
      [] OTHER -> Raise("TypeError")

\* v[key] for a string key
PyIndex(v, key) ==
    IF v.k = "dict" /\ HasKey(v, key) THEN Done(Get(v, key))
    ELSE IF v.k = "dict" THEN Raise("KeyError")
    ELSE Raise("TypeError")

\* the values a for loop over v binds, for a list or a str
Iterate(v) ==
    IF v.k = "list" THEN v.l
    ELSE [i \in 1..Len(Chars(v.s)) |-> VStr(Chars(v.s)[i])]

NoAssessments == VDict(<<Entry("recommended_assessments", VList(<<>>))>>)

\* the payload left under the key the model chose
EnsureKeySkipped(recommendations) ==
    IF PyIn("recommendations", recommendations).exc # ""
    THEN Raise(PyIn("recommendations", recommendations).exc)
    ELSE Done(recommendations)

\* lines 187-194: a payload keyed "recommendations" is re-keyed
EnsureKey(recommendations) ==
    LET a == PyIn("recommendations", recommendations)
        b == PyIn("recommended_assessments", recommendations)
    IN IF a.exc # "" THEN Raise(a.exc)
       ELSE IF a.val /\ ~b.val
            THEN CASE recommendations.k = "dict" ->
                        Done(Put(Without(recommendations, "recommendations"),
                                 "recommended_assessments",
                                 Get(recommendations, "recommendations")))
                   [] recommendations.k = "list" -> Raise("TypeError")
                   [] OTHER -> Raise("AttributeError")
            ELSE Done(recommendations)

\* lines 196-206: the list is cut to max_results, or replaced by an empty one
LimitResults(recommendations, max_results) ==
    IF PyIn("recommended_assessments", recommendations).val
    THEN LET v == PyIndex(recommendations, "recommended_assessments")
             cut == PySlice(v.val, max_results)
         IN IF v.exc # "" THEN Raise(v.exc)
            ELSE IF cut.exc # "" THEN Raise(cut.exc)
            ELSE Done(Put(recommendations, "recommended_assessments", cut.val))
    ELSE Done(NoAssessments)

\* int(x) inside try / except (ValueError, TypeError): 0 on those two, and
\* OverflowError, which int of an infinite float raises, is not caught here
CoerceDuration(x) ==
    CASE x.k = "str" -> Done(VInt(IF x.s \in IntTexts THEN IntOfText(x.s) ELSE 0))
      [] x.k = "float" /\ x.s = "" -> Done(VInt(x.n))
      [] x.k = "float" /\ x.s = "inf" -> Raise("OverflowError")
      [] OTHER -> Done(VInt(0))

\* lines 216-220
CoerceTestType(x) == IF x.k = "str" THEN VList(<<x>>) ELSE VList(<<>>)

\* lines 210-220 for one rec of the loop
CoerceRec(rec) ==
    LET hasDur == PyIn("duration", rec)
        hasTT == PyIn("test_type", rec)
    IN IF hasDur.exc # "" THEN Raise(hasDur.exc)
       ELSE IF rec.k # "dict"
            THEN (IF hasDur.val \/ hasTT.val THEN Raise("TypeError") ELSE Done(rec))
       ELSE LET dur == IF hasDur.val /\ Get(rec, "duration").k \notin {"int", "bool"}
                       THEN CoerceDuration(Get(rec, "duration"))
                       ELSE Done(VNone)
                r1 == IF hasDur.val /\ Get(rec, "duration").k \notin {"int", "bool"}
                            /\ dur.exc = ""
                      THEN Put(rec, "duration", dur.val)
                      ELSE rec
                r2 == IF hasTT.val /\ Get(rec, "test_type").k # "list"
                      THEN Put(r1, "test_type", CoerceTestType(Get(rec, "test_type")))
                      ELSE r1
            IN IF dur.exc # "" THEN Raise(dur.exc) ELSE Done(r2)

\* lines 208-220: the loop over the recs; val is the sequence of recs after it
RECURSIVE CoerceAll(_)
CoerceAll(recs) ==
    IF recs = <<>> THEN [exc |-> "", val |-> <<>>]
    ELSE LET h == CoerceRec(Head(recs)) IN
         IF h.exc # "" THEN [exc |-> h.exc, val |-> <<>>]
         ELSE LET t == CoerceAll(Tail(recs)) IN
              IF t.exc # "" THEN t
              ELSE [exc |-> "", val |-> <<h.val>> \o t.val]

\* lines 208-220: a list has its dict elements coerced in place; the
\* characters of a str are looked at and left alone
EnsureTypes(recommendations) ==
    LET v == Get(recommendations, "recommended_assessments")
        c == CoerceAll(Iterate(v))
    IN IF c.exc # "" THEN Raise(c.exc)
       ELSE IF v.k = "list"
            THEN Done(Put(recommendations, "recommended_assessments", VList(c.val)))
            ELSE Done(recommendations)

\* line 225: what the except clause returns
ErrorResponse(e) ==
    VDict(<<Entry("error", VStr(e)), Entry("recommended_assessments", VList(<<>>))>>)

\* lines 120-222: the try body after the reply has arrived; exc is the
\* exception that leaves it, val the value line 222 returns
ProcessSteps(raw_response, max_results) ==
    LET keyed == EnsureKey(ExtractPayload(raw_response))
        limited == LimitResults(keyed.val, max_results)
        typed == EnsureTypes(limited.val)
    IN IF keyed.exc # "" THEN Raise(keyed.exc)
       ELSE IF limited.exc # "" THEN Raise(limited.exc)
       ELSE typed

\* lines 120-225: what recommend returns for a reply of the generative model
ProcessReply(raw_response, max_results) ==
    LET out == ProcessSteps(raw_response, max_results) IN
    IF out.exc # "" THEN ErrorResponse(out.exc) ELSE out.val

----------------------------------------------------------------------------
(* The replies of the generative model: the text rag_chain.invoke may return *)

\* the most items a reply lists, but for LongList
MaxItems == 2
\* max_results ranges over -NegRequests .. MaxRequest, and the default
NegRequests == 1
MaxRequest == 3
\* a client sends a max_results of 1 .. MaxSlider with its query, or none
MaxSlider == 1
\* the request threads that call get_engine
NThreads == 2
\* the test_type code of a catalog row has at most MaxCode characters
MaxCode == 2

DefaultMaxResults == 10

RECURSIVE Join(_, _)
Join(seqs, sep) ==
    IF seqs = <<>> THEN <<>>
    ELSE IF Len(seqs) = 1 THEN seqs[1]
    ELSE seqs[1] \o <<sep>> \o Join(Tail(seqs), sep)

Field(key, value) == <<TStr(key), COLON>> \o value
Obj(fields) == <<LB>> \o Join(fields, COMMA) \o <<RB>>
Arr(elems) == <<LS>> \o Join(elems, COMMA) \o <<RS>>
S(s) == <<TStr(s)>>

\* an item laid out as the prompt's template lays it out
ItemTemplate(u) ==
    Obj(<<Field("url", S(u)), Field("adaptive_support", S("Yes")),
          Field("description", S("d")), Field("duration", <<TInt(30)>>),
          Field("remote_support", S("No")),
          Field("test_type", Arr(<<S("K"), S("P")>>))>>)

\* the same fields in another order, the duration with a fraction
ItemTypeFirst ==
    Obj(<<Field("test_type", Arr(<<S("A")>>)), Field("url", S("u2")),
          Field("adaptive_support", S("No")), Field("description", S("d")),
          Field("duration", <<TFloat(30)>>), Field("remote_support", S("Yes"))>>)

\* an item of the other naming scheme
ItemAlt ==
    Obj(<<Field("assessment_name", S("X")), Field("url", S("u")),
          Field("remote_testing_support", S("Yes")),
          Field("adaptive_irt_support", S("No")),
          Field("duration", S("30")), Field("test_type", S("K"))>>)

ItemUrlOnly == Obj(<<Field("url", S("u3"))>>)

ItemNegative ==
    Obj(<<Field("url", S("u4")), Field("duration", <<TInt(0 - 5)>>),
          Field("test_type", Arr(<<<<TInt(1)>>>>))>>)

ItemLoose ==
    Obj(<<Field("url", S("u5")), Field("duration", S("abc")),
          Field("test_type", <<TLit("null")>>)>>)

ItemTextNegative ==
    Obj(<<Field("url", S("u6")), Field("duration", S("-5"))>>)

ItemInfinite ==
    Obj(<<Field("url", S("u7")), Field("duration", <<TLit("Infinity")>>)>>)

FirstItems ==
    {ItemTemplate("u1"), ItemTypeFirst, ItemAlt, ItemUrlOnly, ItemNegative,
     ItemLoose, ItemTextNegative, ItemInfinite,
     S("x"), S("no duration"), <<TInt(7)>>}

MoreItems == {ItemTemplate("u8"), ItemTypeFirst, ItemUrlOnly}

RECURSIVE ItemLists(_)
ItemLists(n) ==
    IF n = 0 THEN {<<>>}
    ELSE IF n = 1 THEN {<<it>> : it \in FirstItems}
    ELSE {Append(l, it) : l \in ItemLists(n - 1), it \in MoreItems}

Keyed(key, items) == Obj(<<Field(key, Arr(items))>>)

RECURSIVE Copies(_, _)
Copies(x, n) == IF n = 0 THEN <<>> ELSE <<x>> \o Copies(x, n - 1)

\* one more item than the default max_results
LongList == Keyed("recommended_assessments", Copies(ItemUrlOnly, DefaultMaxResults + 1))

ListBodies ==
    {Keyed(key, items) :
       key \in {"recommended_assessments", "recommendations", "results"},
       items \in UNION {ItemLists(n) : n \in 0..MaxItems}}

OddBodies ==
    {LongList,
     <<Prose>>,
     Arr(<<ItemTemplate("u1")>>),
     Arr(<<S("recommendations")>>),
     Arr(<<S("recommended_assessments")>>),
     S("my recommendations"),
     S("recommended_assessments"),
     <<TInt(7)>>,
     Obj(<<Field("recommended_assessments", S("ab"))>>),
     Obj(<<Field("recommended_assessments", <<TInt(7)>>)>>),
     Obj(<<Field("recommended_assessments", Obj(<<Field("url", S("u1"))>>))>>),
     Obj(<<Field("recommendations", Arr(<<ItemAlt>>)),
           Field("recommended_assessments", Arr(<<ItemUrlOnly>>))>>),
     Obj(<<Field("error", S("none")),
           Field("recommended_assessments", Arr(<<ItemTemplate("u1")>>))>>)}

\* the text without its first comma
DropFirstComma(body) ==
    LET commas == {i \in 1..Len(body) : body[i].t = ","} IN
    IF commas = {} THEN body
    ELSE SubSeq(body, 1, Min(commas) - 1) \o SubSeq(body, Min(commas) + 1, Len(body))

Malformed(body) == {DropFirstComma(body), SubSeq(body, 1, Len(body) - 1)}

Payloads == UNION {{b} \cup Malformed(b) : b \in ListBodies \cup OddBodies}

\* prose that quotes a well-formed example of the format
Example ==
    <<Prose>> \o Keyed("recommended_assessments",
                       <<Obj(<<Field("test_type", Arr(<<S("S")>>)),
                               Field("url", S("p"))>>)>>)

Wrapped(body) ==
    {body,
     <<FenceOpen>> \o body \o <<FenceClose>>,
     <<Prose, FenceOpen>> \o body \o <<FenceClose, Prose>>,
     Example \o <<FenceOpen>> \o body \o <<FenceClose>>,
     body \o <<Prose>>,
     <<FenceOpen>> \o body}

Replies == UNION {Wrapped(b) : b \in Payloads}

MaxResultsValues == ((0 - NegRequests)..MaxRequest) \cup {DefaultMaxResults}

----------------------------------------------------------------------------
(* The service layer: POST /recommend *)

ApiMaxResultsRaised == DefaultMaxResults + 1
ApiMaxResults == 10

GetOr(v, key, default) == IF HasKey(v, key) THEN Get(v, key) ELSE default

\* bool(v)
Truthy(v) ==
    CASE v.k = "none" -> FALSE
      [] v.k \in {"int", "bool"} -> v.n # 0
      [] v.k = "float" -> v.n # 0 \/ v.s # ""
      [] v.k = "str" -> v.s # ""
      [] v.k = "list" -> v.l # <<>>
      [] OTHER -> v.d # <<>>

\* int(v), not guarded
PyInt(v) ==
    CASE v.k \in {"int", "bool"} -> Done(VInt(v.n))
      [] v.k = "str" ->
           IF v.s \in IntTexts THEN Done(VInt(IntOfText(v.s))) ELSE Raise("ValueError")
      [] v.k = "float" ->
           IF v.s = "" THEN Done(VInt(v.n))
           ELSE IF v.s = "inf" THEN Raise("OverflowError") ELSE Raise("ValueError")
      [] OTHER -> Raise("TypeError")

\* lines 92-107: one item of the "recommendations" scheme put in the wire scheme
FormatAssessment(a) ==
    IF a.k # "dict" THEN Raise("AttributeError")
    ELSE LET dur == IF Truthy(GetOr(a, "duration", VNone))
                    THEN PyInt(GetOr(a, "duration", VInt(0)))
                    ELSE Done(VInt(0))
             tt == GetOr(a, "test_type", VNone)
         IN IF dur.exc # "" THEN Raise(dur.exc)
            ELSE Done(VDict(<<
                   Entry("url", GetOr(a, "url", VStr(""))),
                   Entry("adaptive_support", GetOr(a, "adaptive_irt_support", VStr("No"))),
                   Entry("description", GetOr(a, "assessment_name", VStr(""))),
                   Entry("duration", dur.val),
                   Entry("remote_support", GetOr(a, "remote_testing_support", VStr("No"))),
                   Entry("test_type",
                         IF tt.k = "str" THEN VList(<<tt>>)
                         ELSE GetOr(a, "test_type", VList(<<VStr("Unknown")>>)))>>))

RECURSIVE FormatAll(_)
FormatAll(recs) ==
    IF recs = <<>> THEN [exc |-> "", val |-> <<>>]
    ELSE LET h == FormatAssessment(Head(recs)) IN
         IF h.exc # "" THEN [exc |-> h.exc, val |-> <<>>]
         ELSE LET t == FormatAll(Tail(recs)) IN
              IF t.exc # "" THEN t
              ELSE [exc |-> "", val |-> <<h.val>> \o t.val]

\* lines 83-115: what the handler returns for the engine's results
FormatResults(results) ==
    IF ~HasKey(results, "recommended_assessments")
    THEN IF HasKey(results, "recommendations")
         THEN LET assessments == Get(results, "recommendations")
                  formatted == FormatAll(Iterate(assessments))
              IN IF assessments.k \notin {"list", "str"} THEN Raise("TypeError")
                 ELSE IF formatted.exc # "" THEN Raise(formatted.exc)
                 ELSE Done(VDict(<<Entry("recommended_assessments",
                                         VList(formatted.val))>>))
         ELSE Done(NoAssessments)
    ELSE Done(results)

\* The response model.  A value fits a declared field type "yes", "no", or
\* "lax" when the answer depends on the coercions of the validation library
\* installed (a number where a str is declared, a bool or a float where an
\* int is declared).
FitsStr(v) ==
    IF v.k = "str" THEN "yes"
    ELSE IF v.k \in {"int", "float", "bool"} THEN "lax" ELSE "no"

FitsInt(v) ==
    IF v.k = "int" \/ (v.k = "str" /\ v.s \in IntTexts) THEN "yes"
    ELSE IF v.k \in {"bool", "float"} THEN "lax" ELSE "no"

Worst(fits) ==
    IF "no" \in fits THEN "no" ELSE IF "lax" \in fits THEN "lax" ELSE "yes"

FitsStrList(v) ==
    IF v.k # "list" THEN "no"
    ELSE Worst({FitsStr(v.l[i]) : i \in 1..Len(v.l)})

StrFields == {"url", "adaptive_support", "description", "remote_support"}
WireFields == StrFields \cup {"duration", "test_type"}

\* class Assessment
FitsAssessment(v) ==
    IF v.k # "dict" \/ \E f \in WireFields : ~HasKey(v, f) THEN "no"
    ELSE Worst({FitsStr(Get(v, f)) : f \in StrFields}
               \cup {FitsInt(Get(v, "duration")), FitsStrList(Get(v, "test_type"))})

\* class RecommendationResponse
FitsResponse(v) ==
    IF v.k # "dict" \/ ~HasKey(v, "recommended_assessments") THEN "no"
    ELSE LET ra == Get(v, "recommended_assessments") IN
         IF ra.k # "list" THEN "no"
         ELSE Worst({FitsAssessment(ra.l[i]) : i \in 1..Len(ra.l)})

\* the fields of the response model, the others dropped
WireAssessment(v) ==
    VDict(<<Entry("url", Get(v, "url")),
            Entry("adaptive_support", Get(v, "adaptive_support")),
            Entry("description", Get(v, "description")),
            Entry("duration", Get(v, "duration")),
            Entry("remote_support", Get(v, "remote_support")),
            Entry("test_type", Get(v, "test_type"))>>)

WireResponse(v) ==
    LET ra == Get(v, "recommended_assessments") IN
    VDict(<<Entry("recommended_assessments",
                  VList([i \in 1..Len(ra.l) |-> WireAssessment(ra.l[i])]))>>)

HttpResponse(status, detail, body) == [status |-> status, detail |-> detail, body |-> body]
NoResponse == HttpResponse(0, "", VNone)

----------------------------------------------------------------------------
(* The health check, the retriever's setting and the presentation layer *)

HealthStatusOfEngine(eng) == IF eng = "ready" THEN "healthy" ELSE "unavailable"
\* GET /health: the handler's whole body is the return of this status
HealthStatus(eng) == "healthy"

HealthBody(eng) == VDict(<<Entry("status", VStr(HealthStatus(eng)))>>)

\* search_kwargs of the retriever built in the engine's constructor
RetrieverK == 10

\* the number of documents a retrieval asks for, in a call of recommend with
\* max_results m
SearchKOfRequest(m) == m
SearchK(m) == RetrieverK

\* a request that carries no max_results
NoBound == 0 - 1

\* the max_results a client can send with its query: none, or one of the low
\* values of the slider of the presentation layer
RequestedBounds == {NoBound} \cup (1..MaxSlider)

\* app.py's get_recommendations: the body of a successful response, or the
\* empty stand-in after raise_for_status raised
UiResults(resp) ==
    IF resp.status = 200
    THEN resp.body
    ELSE VDict(<<Entry("recommendations", VList(<<>>))>>)

\* the fields the presentation layer reads of each entry it renders
UiFields ==
    <<"assessment_name", "test_type", "duration", "remote_testing_support",
      "adaptive_irt_support", "url">>

UiCanRender(rec) ==
    /\ rec.k = "dict"
    /\ \A i \in 1..Len(UiFields) : HasKey(rec, UiFields[i])

\* what the page shows for the results of a submission: the entries, the
\* warning, or the exception of an entry that lacks a field
UiShows(results) ==
    IF /\ Truthy(results)
       /\ HasKey(results, "recommendations")
       /\ Truthy(Get(results, "recommendations"))
    THEN IF \A i \in 1..Len(Iterate(Get(results, "recommendations"))) :
                UiCanRender(Iterate(Get(results, "recommendations"))[i])
         THEN "rendered"
         ELSE "exception"
    ELSE "warning"

----------------------------------------------------------------------------
(* The state machine *)

VARIABLES
    engine,        \* api.py's global engine: "none" or "ready"
    pc,            \* where the request in progress stands
    caller,        \* "api" (the POST handler), "direct" (a caller of recommend)
                   \* or "health" (the GET handler)
    max_results,   \* recommend's max_results
    raw_response,  \* the reply of the generative model
    failed,        \* the stage whose exception recommend's except caught, or ""
    calls,         \* the remote calls of the request, in order
    result,        \* what recommend returned
    response,      \* the HTTP response of the request
    requested,     \* the max_results the client sent with its query, or NoBound
    retrieved_k,   \* the number of documents the request's retrieval asked for
    ui             \* what the presentation layer shows for the submission

VARIABLES
    proc,          \* the service process: "booting", "serving" or "dead"
    handle,        \* api.py's global engine as an instance number, 0 for None
    tpc,           \* where each request thread stands in get_engine
    got,           \* the instance get_engine returned to each thread, 0 for none
    log            \* the constructor's runs and the recommend calls, in order

VARIABLES
    row,           \* a row of the scraped catalog
    new_row,       \* the row the transform step made of it
    written        \* the row handed to the writer, its state "yes", or "no"
                   \* for a row skipped, "" before

requestVars ==
    <<engine, pc, caller, max_results, raw_response, failed, calls, result,
      response, requested, retrieved_k, ui>>
initVars == <<proc, handle, tpc, got, log>>
rowVars == <<row, new_row, written>>

vars == <<requestVars, initVars, rowVars>>

Threads == 1..NThreads

NoRow ==
    [url |-> "", test_type |-> <<>>, irt_support |-> <<>>,
     remote_support |-> <<>>, assessment_length |-> <<>>, description |-> ""]
NoNewRow ==
    [url |-> "", adaptive_support |-> "", description |-> "", duration |-> 0,
     remote_support |-> "", test_type |-> <<>>]
NotWritten == [state |-> "", cells |-> NoNewRow]

RequestInit ==
    /\ engine = "none"
    /\ pc = "idle"
    /\ caller = "direct"
    /\ max_results = DefaultMaxResults
    /\ raw_response = <<>>
    /\ failed = ""
    /\ calls = <<>>
    /\ result = VNone
    /\ response = NoResponse
    /\ requested = NoBound
    /\ retrieved_k = 0
    /\ ui = ""

ProcessInit ==
    /\ proc = "booting"
    /\ handle = 0
    /\ tpc = [t \in Threads |-> "idle"]
    /\ got = [t \in Threads |-> 0]
    /\ log = <<>>

RowInit ==
    /\ row = NoRow
    /\ new_row = NoNewRow
    /\ written = NotWritten

Init == RequestInit /\ ProcessInit /\ RowInit

\* a POST /recommend request arrives and get_engine finds the engine built
ApiRequest ==
    /\ pc = "idle"
    /\ engine = "ready"
    /\ pc' = "called"
    /\ caller' = "api"
    /\ \E b \in RequestedBounds : requested' = b
    /\ max_results' = ApiMaxResults
    /\ UNCHANGED <<engine, raw_response, failed, calls, result, response>>
    /\ UNCHANGED <<retrieved_k, ui, initVars, rowVars>>

\* a POST /recommend request arrives and get_engine builds the engine
ApiRequestInit ==
    /\ pc = "idle"
    /\ engine = "none"
    /\ engine' = "ready"
    /\ pc' = "called"
    /\ caller' = "api"
    /\ \E b \in RequestedBounds : requested' = b
    /\ max_results' = ApiMaxResults
    /\ UNCHANGED <<raw_response, failed, calls, result, response>>
    /\ UNCHANGED <<retrieved_k, ui, initVars, rowVars>>

\* a POST /recommend request arrives and the engine's constructor raises
ApiRequestInitFails ==
    /\ pc = "idle"
    /\ engine = "none"
    /\ pc' = "responded"
    /\ caller' = "api"
    /\ \E b \in RequestedBounds : requested' = b
    /\ response' = HttpResponse(500, "Failed to initialize recommendation engine", VNone)
    /\ UNCHANGED <<engine, max_results, raw_response, failed, calls, result>>
    /\ UNCHANGED <<retrieved_k, ui, initVars, rowVars>>

\* a GET /health request arrives and is answered
HealthCheck ==
    /\ pc = "idle"
    /\ pc' = "responded"
    /\ caller' = "health"
    /\ response' = HttpResponse(200, "", HealthBody(engine))
    /\ UNCHANGED <<engine, max_results, raw_response, failed, calls, result>>
    /\ UNCHANGED <<requested, retrieved_k, ui, initVars, rowVars>>

\* engine.recommend(query, max_results) called on an engine of the caller
DirectCall ==
    /\ pc = "idle"
    /\ \E m \in MaxResultsValues : max_results' = m
    /\ pc' = "called"
    /\ caller' = "direct"
    /\ UNCHANGED <<engine, raw_response, failed, calls, result, response>>
    /\ UNCHANGED <<requested, retrieved_k, ui, initVars, rowVars>>

\* rag_chain.invoke: the retriever answers
Retrieve ==
    /\ pc = "called"
    /\ pc' = "retrieved"
    /\ calls' = Append(calls, "retrieve")
    /\ retrieved_k' = SearchK(max_results)
    /\ UNCHANGED <<engine, caller, max_results, raw_response, failed, result, response>>
    /\ UNCHANGED <<requested, ui, initVars, rowVars>>

\* rag_chain.invoke: the retriever raises, and recommend's except returns
RetrieveFails ==
    /\ pc = "called"
    /\ pc' = "returned"
    /\ calls' = Append(calls, "retrieve")
    /\ retrieved_k' = SearchK(max_results)
    /\ failed' = "retrieval"
    /\ result' = ErrorResponse("retrieval failed")
    /\ UNCHANGED <<engine, caller, max_results, raw_response, response>>
    /\ UNCHANGED <<requested, ui, initVars, rowVars>>

\* rag_chain.invoke: the generative model replies
Generate ==
    /\ pc = "retrieved"
    /\ \E reply \in Replies : raw_response' = reply
    /\ pc' = "generated"
    /\ calls' = Append(calls, "generate")
    /\ UNCHANGED <<engine, caller, max_results, failed, result, response>>
    /\ UNCHANGED <<requested, retrieved_k, ui, initVars, rowVars>>

\* rag_chain.invoke: the generative model's call raises
GenerateFails ==
    /\ pc = "retrieved"
    /\ pc' = "returned"
    /\ calls' = Append(calls, "generate")
    /\ failed' = "generation"
    /\ result' = ErrorResponse("generation failed")
    /\ UNCHANGED <<engine, caller, max_results, raw_response, response>>
    /\ UNCHANGED <<requested, retrieved_k, ui, initVars, rowVars>>

\* lines 118-225: the reply is parsed, keyed, cut and typed, and returned
Process ==
    /\ pc = "generated"
    /\ result' = ProcessReply(raw_response, max_results)
    /\ failed' = IF ProcessSteps(raw_response, max_results).exc # "" THEN "processing" ELSE ""
    /\ pc' = "returned"
    /\ UNCHANGED <<engine, caller, max_results, raw_response, calls, response>>
    /\ UNCHANGED <<requested, retrieved_k, ui, initVars, rowVars>>

\* lines 79-119 and the response model: the handler raises, and its except
\* answers 500 with the message, or it returns a value and the response model
\* accepts it
ApiRespond ==
    /\ pc = "returned"
    /\ caller = "api"
    /\ LET out == FormatResults(result) IN
         IF out.exc # ""
         THEN response' = HttpResponse(500, "Error generating recommendations", VNone)
         ELSE /\ FitsResponse(out.val) \in {"yes", "lax"}
              /\ response' = HttpResponse(200, "", WireResponse(out.val))
    /\ pc' = "responded"
    /\ UNCHANGED <<engine, caller, max_results, raw_response, failed, calls, result>>
    /\ UNCHANGED <<requested, retrieved_k, ui, initVars, rowVars>>

\* the handler returns a value and the response model rejects it
ApiRespondInvalid ==
    /\ pc = "returned"
    /\ caller = "api"
    /\ LET out == FormatResults(result) IN
         /\ out.exc = ""
         /\ FitsResponse(out.val) \in {"no", "lax"}
    /\ response' = HttpResponse(500, "Internal Server Error", VNone)
    /\ pc' = "responded"
    /\ UNCHANGED <<engine, caller, max_results, raw_response, failed, calls, result>>
    /\ UNCHANGED <<requested, retrieved_k, ui, initVars, rowVars>>

\* app.py lines 75-118: the page that submitted the query shows the results
UiShow ==
    /\ pc = "responded"
    /\ caller = "api"
    /\ requested # NoBound
    /\ ui' = UiShows(UiResults(response))
    /\ pc' = "shown"
    /\ UNCHANGED <<engine, caller, max_results, raw_response, failed, calls, result>>
    /\ UNCHANGED <<response, requested, retrieved_k, initVars, rowVars>>

\* the request is over: the next one starts from a clean slate
Finish ==
    /\ \/ pc = "responded"
       \/ pc = "shown"
       \/ pc = "returned" /\ caller = "direct"
    /\ pc' = "idle"
    /\ raw_response' = <<>>
    /\ failed' = ""
    /\ calls' = <<>>
    /\ result' = VNone
    /\ response' = NoResponse
    /\ requested' = NoBound
    /\ retrieved_k' = 0
    /\ ui' = ""
    /\ UNCHANGED <<engine, caller, max_results, initVars, rowVars>>

Next ==
    \/ ApiRequest
    \/ ApiRequestInit
    \/ ApiRequestInitFails
    \/ HealthCheck
    \/ DirectCall
    \/ Retrieve
    \/ RetrieveFails
    \/ Generate
    \/ GenerateFails
    \/ Process
    \/ ApiRespond
    \/ ApiRespondInvalid
    \/ UiShow
    \/ Finish

Spec == Init /\ [][Next]_vars

----------------------------------------------------------------------------
(* What recommend returned, and what the claims say of it *)

\* the value under 'recommended_assessments' of what recommend returned
Recs == Get(result, "recommended_assessments")

\* its entries
Elements == Iterate(Recs)
Count == Len(Elements)

\* its i-th entry is a recommendation record
IsRecord(i) == Recs.k = "list" /\ Elements[i].k = "dict"

\* the payload the reply held, before keying, cutting and typing
Payload == ExtractPayload(raw_response)

\* the strict parse of the reply failed
StrictFailed(raw) ==
    LET m == FenceSearch(raw) IN
    ~json_loads(IF m.found THEN m.group ELSE raw).ok

\* C1 as stated: for any max_results the returned list has at most
\* max_results entries (at most 10 under the default).
C1_Original ==
    pc = "returned" => Count <= max_results

\* C1, amended: for any max_results that is not negative the returned list has
\* at most max_results entries (at most 10 under the default).
C1_CountWithinBound ==
    (pc = "returned" /\ max_results >= 0) => Count <= max_results

\* the cut has acted: the reply listed more items than the default allows
C1_Witness ==
    /\ pc = "returned"
    /\ max_results = DefaultMaxResults
    /\ Payload.k = "dict" /\ HasKey(Payload, "recommended_assessments")
    /\ Len(Get(Payload, "recommended_assessments").l) > DefaultMaxResults
    /\ Recs.k = "list" /\ Count = DefaultMaxResults

IsNonNegInt(v) == v.k = "int" /\ v.n >= 0
IsStrList(v) == v.k = "list" /\ \A i \in 1..Len(v.l) : v.l[i].k = "str"

\* C2 as stated: every record recommend returns has a duration field that is
\* a non-negative integer.
C2_Original ==
    pc = "returned" =>
      \A i \in 1..Count :
         IsRecord(i) =>
           /\ HasKey(Elements[i], "duration")
           /\ IsNonNegInt(Get(Elements[i], "duration"))

\* C3 as stated: every record recommend returns has a test_type field that is
\* a list of strings.
C3_Original ==
    pc = "returned" =>
      \A i \in 1..Count :
         IsRecord(i) =>
           /\ HasKey(Elements[i], "test_type")
           /\ IsStrList(Get(Elements[i], "test_type"))

YesNo == {VStr("Yes"), VStr("No")}

\* C4 as stated: every record recommend returns has the six fields of the
\* contract, the two support flags 'Yes' or 'No', test_type with a label.
C4_Original ==
    pc = "returned" =>
      \A i \in 1..Count :
         IsRecord(i) =>
           /\ \A f \in WireFields : HasKey(Elements[i], f)
           /\ Get(Elements[i], "adaptive_support") \in YesNo
           /\ Get(Elements[i], "remote_support") \in YesNo
           /\ Get(Elements[i], "test_type").k = "list"
           /\ Get(Elements[i], "test_type").l # <<>>

\* the reply is entirely unparseable: no fenced block, not valid JSON, no
\* match of the fallback pattern
Unparseable(raw) ==
    /\ ~FenceSearch(raw).found
    /\ ~json_loads(raw).ok
    /\ ~StructureSearch(raw).found

\* payload extraction failed: the strict parse and the fallback pattern both
ExtractionFailed(raw) == StrictFailed(raw) /\ ~StructureSearch(raw).found

EmptyWithError ==
    /\ Recs = VList(<<>>)
    /\ HasKey(result, "error")
    /\ Get(result, "error").k = "str" /\ Get(result, "error").s # ""

\* C5 as stated: when a stage fails (retrieval, the generative model's call,
\* payload extraction, coercion, clipping) recommend returns an empty list
\* with an error description.
C5_Original ==
    (pc = "returned" /\ (failed # "" \/ ExtractionFailed(raw_response)))
       => EmptyWithError

\* C6 as stated: an entirely unparseable reply yields an empty list together
\* with a populated error description.
C6_Original ==
    (pc = "returned" /\ failed = "" /\ calls = <<"retrieve", "generate">>
       /\ Unparseable(raw_response))
       => EmptyWithError

\* C7 as stated: when the reply holds a fenced block, what recommend returns
\* is what it returns for the content of the block alone, on the strict path
\* and on the fallback path.
C7_Original ==
    (pc = "returned" /\ calls = <<"retrieve", "generate">>
       /\ FenceSearch(raw_response).found)
       => result = ProcessReply(FenceSearch(raw_response).group, max_results)

\* the items a malformed reply may list with every field recognisable
PatternItems == {ItemTemplate("u1"), ItemTemplate("u8"), ItemTypeFirst, ItemUrlOnly}

\* the record of an item: its field values where they have the expected
\* form, the sentinel ("" for a string, 0 for the duration, [] for test_type)
\* where the item has no such field
Recovered(item) ==
    LET v == json_loads(item).val
        str(f) == IF HasKey(v, f) /\ Get(v, f).k = "str" THEN Get(v, f) ELSE VStr("")
    IN VDict(<<Entry("url", str("url")),
               Entry("adaptive_support", str("adaptive_support")),
               Entry("description", str("description")),
               Entry("duration",
                     IF HasKey(v, "duration") /\ Get(v, "duration").k \in {"int", "float"}
                     THEN VInt(Get(v, "duration").n) ELSE VInt(0)),
               Entry("remote_support", str("remote_support")),
               Entry("test_type",
                     IF HasKey(v, "test_type") /\ IsStrList(Get(v, "test_type"))
                     THEN Get(v, "test_type") ELSE VList(<<>>))>>)

\* C8 as stated: a reply that is malformed JSON (here: JSON with prose after
\* it) and lists items with recognisable fields, the template's layout among
\* them, yields one record per item with the recovered values and sentinels.
C8_Original ==
    \A n \in 1..MaxItems : \A items \in ItemLists(n) :
       (/\ pc = "returned"
        /\ \A i \in 1..n : items[i] \in PatternItems
        /\ raw_response = Keyed("recommended_assessments", items) \o <<Prose>>
        /\ max_results >= n)
       => Recs = VList([i \in 1..n |-> Recovered(items[i])])

\* the reply of C9, bare or fenced
C9_Reply == Keyed("recommendations", <<ItemAlt>>)
C9_Replies ==
    {C9_Reply, <<FenceOpen>> \o C9_Reply \o <<FenceClose>>,
     <<Prose, FenceOpen>> \o C9_Reply \o <<FenceClose, Prose>>}
C9_Item == json_loads(ItemAlt).val

\* C9 as stated: the reply with one item under 'recommendations' yields
\* exactly one recommendation, the item unmodified.
C9_Original ==
    (pc = "returned" /\ raw_response \in C9_Replies)
       => Recs = VList(<<C9_Item>>)

\* C9, amended: for max_results of 1 or more, the reply yields exactly one
\* recommendation: the item with its url, assessment_name and support flags
\* unmodified, its duration the integer 30 and its test_type the list ["K"].
C9_OneRecordCoerced ==
    (pc = "returned" /\ raw_response \in C9_Replies /\ max_results >= 1)
       => /\ Recs.k = "list" /\ Count = 1
          /\ Get(Recs.l[1], "url") = Get(C9_Item, "url")
          /\ Recs.l[1] = Put(Put(C9_Item, "duration", VInt(30)),
                             "test_type", VList(<<VStr("K")>>))
          /\ ~HasKey(result, "error")

C9_Witness ==
    /\ pc = "returned" /\ raw_response = C9_Reply /\ max_results = 1
    /\ Count = 1 /\ Get(Recs.l[1], "duration") = VInt(30)

\* C10 as stated: a failure while a POST /recommend request is served, of the
\* retrieval or of the generative model's call in the engine too, is answered
\* with a 500 that carries the failure's message, never with a success.
C10_Original ==
    (pc = "responded" /\ caller = "api" /\ (failed # "" \/ engine = "none"))
       => response.status = 500 /\ response.detail # ""

----------------------------------------------------------------------------
(* What the service answers, and what the claims say of it *)

\* the recommendations of a successful response to POST /recommend
ResponseItems == Get(response.body, "recommended_assessments").l

Answered200 == pc = "responded" /\ caller = "api" /\ response.status = 200

SchemeOne(rec) ==
    /\ rec.k = "dict"
    /\ \A f \in {"url", "description", "adaptive_support", "remote_support"} :
          HasKey(rec, f)
SchemeTwo(rec) ==
    /\ rec.k = "dict"
    /\ \A f \in {"url", "assessment_name", "adaptive_irt_support",
                 "remote_testing_support"} : HasKey(rec, f)

\* the wire item C12 describes for a record of either scheme
C12_Wire(rec) ==
    VDict(<<Entry("url", Get(rec, "url")),
            Entry("adaptive_support",
                  IF SchemeOne(rec) THEN Get(rec, "adaptive_support")
                  ELSE Get(rec, "adaptive_irt_support")),
            Entry("description",
                  IF SchemeOne(rec) THEN Get(rec, "description")
                  ELSE Get(rec, "assessment_name")),
            Entry("duration", Get(rec, "duration")),
            Entry("remote_support",
                  IF SchemeOne(rec) THEN Get(rec, "remote_support")
                  ELSE Get(rec, "remote_testing_support")),
            Entry("test_type", Get(rec, "test_type"))>>)

\* the engine returned, without a caught exception, a list of records that
\* each follow one of the two schemes, all their named fields strings
C12_EngineOutput ==
    /\ caller = "api" /\ failed = "" /\ result.k = "dict" /\ Recs.k = "list"
    /\ \A i \in 1..Len(Recs.l) :
          /\ SchemeOne(Recs.l[i]) \/ SchemeTwo(Recs.l[i])
          /\ \A j \in 1..Len(Recs.l[i].d) :
                Recs.l[i].d[j].key \notin {"duration", "test_type"}
                   => Recs.l[i].d[j].val.k = "str"

\* C12 as stated: whichever of the two schemes the records of the engine's
\* output follow, the response to POST /recommend is a success that lists, one
\* per record and in order, the record's url, adaptive_support, description,
\* duration, remote_support and test_type, the second scheme's
\* assessment_name, adaptive_irt_support and remote_testing_support put under
\* description, adaptive_support and remote_support.
C12_Original ==
    (pc = "responded" /\ C12_EngineOutput)
       => /\ response.status = 200
          /\ response.body =
                VDict(<<Entry("recommended_assessments",
                              VList([i \in 1..Len(Recs.l) |-> C12_Wire(Recs.l[i])]))>>)

HealthAnswered == pc = "responded" /\ caller = "health"

\* C13 as stated: a GET /health request answers healthy only after a
\* retrieval it made against the engine succeeded, never while the engine is
\* not initialised.
C13_Original ==
    (HealthAnswered /\ response.body = HealthBody(engine))
       => engine = "ready" /\ \E i \in 1..Len(calls) : calls[i] = "retrieve"

\* C13, amended: a GET /health request is answered 200 with the status
\* healthy whatever the state of the engine, and makes no retrieval and no
\* other remote call.
C13_HealthWithoutProbe ==
    HealthAnswered
       => /\ response.status = 200
          /\ response.body = VDict(<<Entry("status", VStr("healthy"))>>)
          /\ calls = <<>>
          /\ retrieved_k = 0

C13_Witness ==
    /\ HealthAnswered /\ engine = "none"
    /\ Get(response.body, "status") = VStr("healthy")

\* C15 as stated: when the service answered the submission of the page with a
\* success that holds at least one recommendation, the page renders the
\* recommendations and not the warning that none was found.
C15_Original ==
    (pc = "shown" /\ response.status = 200 /\ ResponseItems # <<>>)
       => ui = "rendered"

\* C17 as stated: a call of recommend makes exactly one retrieval and then
\* exactly one call of the generative model, and the retrieval asks for 10
\* documents whatever max_results is.
C17_Original ==
    pc = "returned"
       => calls = <<"retrieve", "generate">> /\ retrieved_k = 10

\* C17, amended: a call of recommend makes exactly one retrieval, which asks
\* for 10 documents whatever max_results is; when the retrieval succeeded it
\* is followed by exactly one call of the generative model, and when it
\* raised no call of the generative model is made; nothing is retried.
C17_OneRetrievalThenOneCall ==
    /\ pc = "called" => calls = <<>>
    /\ pc = "retrieved" => calls = <<"retrieve">> /\ retrieved_k = 10
    /\ pc = "generated" => calls = <<"retrieve", "generate">> /\ retrieved_k = 10
    /\ pc = "returned" =>
          /\ retrieved_k = 10
          /\ IF failed = "retrieval"
             THEN calls = <<"retrieve">>
             ELSE calls = <<"retrieve", "generate">>

C17_Witness ==
    /\ pc = "returned" /\ caller = "direct" /\ max_results = 1 /\ failed = ""
    /\ calls = <<"retrieve", "generate">> /\ retrieved_k = 10 /\ Count = 1

\* C19 as stated: whatever the model replied, recommend returns a mapping
\* whose 'recommended_assessments' value is a list; the mapping has an 'error'
\* key exactly when an exception was caught, and then the list is empty.
C19_Original ==
    pc = "returned"
       => /\ result.k = "dict"
          /\ HasKey(result, "recommended_assessments")
          /\ Recs.k = "list"
          /\ HasKey(result, "error") <=> failed # ""
          /\ failed # "" => Recs.l = <<>>

----------------------------------------------------------------------------
(* get_engine under concurrent requests.  The dependency is a plain function,
   so each request runs it on a thread of the pool: the test of the global,
   the constructor's run and the return are separate steps of a thread. *)

Event(t, e) == [t |-> t, e |-> e]

\* the thread of the script's start-up call
MainThread == 0

Events(e) == {i \in 1..Len(log) : log[i].e = e}

\* the instance a constructor's run that completes now yields
NewInstance == Cardinality(Events("ok")) + 1

\* api.py run as a script: get_engine() builds the engine, then uvicorn.run
BootScript ==
    /\ proc = "booting"
    /\ handle' = NewInstance
    /\ log' = log \o <<Event(MainThread, "begin"), Event(MainThread, "ok")>>
    /\ proc' = "serving"
    /\ UNCHANGED <<tpc, got, requestVars, rowVars>>

\* api.py run as a script: the constructor raises in get_engine(), the
\* HTTPException is not caught, and the process ends before uvicorn.run
BootScriptFails ==
    /\ proc = "booting"
    /\ log' = log \o <<Event(MainThread, "begin"), Event(MainThread, "fail")>>
    /\ proc' = "dead"
    /\ UNCHANGED <<handle, tpc, got, requestVars, rowVars>>

\* the module imported by a server: the start-up call is not made
BootImported ==
    /\ proc = "booting"
    /\ proc' = "serving"
    /\ UNCHANGED <<handle, tpc, got, log, requestVars, rowVars>>

\* if engine is None: the thread enters the constructor, or goes to the return
CheckEngine(t) ==
    /\ proc = "serving"
    /\ tpc[t] = "idle"
    /\ IF handle = 0
       THEN /\ tpc' = [tpc EXCEPT ![t] = "constructing"]
            /\ log' = Append(log, Event(t, "begin"))
       ELSE /\ tpc' = [tpc EXCEPT ![t] = "returning"]
            /\ log' = log
    /\ UNCHANGED <<proc, handle, got, requestVars, rowVars>>

\* engine = SHLRecommendationEngine(...): the constructor completes and the
\* global is assigned
ConstructOk(t) ==
    /\ tpc[t] = "constructing"
    /\ handle' = NewInstance
    /\ log' = Append(log, Event(t, "ok"))
    /\ tpc' = [tpc EXCEPT ![t] = "returning"]
    /\ UNCHANGED <<proc, got, requestVars, rowVars>>

ConstructFailsSwallowed(t) ==
    /\ tpc[t] = "constructing"
    /\ log' = Append(log, Event(t, "fail"))
    /\ tpc' = [tpc EXCEPT ![t] = "returning"]
    /\ UNCHANGED <<proc, handle, got, requestVars, rowVars>>

\* the constructor raises (the index does not load, or the probe of the
\* generative model fails): the except raises HTTPException(500), the global
\* is not assigned
ConstructFails(t) ==
    /\ tpc[t] = "constructing"
    /\ log' = Append(log, Event(t, "fail"))
    /\ tpc' = [tpc EXCEPT ![t] = "failed"]
    /\ UNCHANGED <<proc, handle, got, requestVars, rowVars>>

\* return engine: the thread reads the global
ReturnEngine(t) ==
    /\ tpc[t] = "returning"
    /\ got' = [got EXCEPT ![t] = handle]
    /\ tpc' = [tpc EXCEPT ![t] = "got"]
    /\ UNCHANGED <<proc, handle, log, requestVars, rowVars>>

\* the handler calls recommend on the engine it was given
Recommend(t) ==
    /\ tpc[t] = "got"
    /\ log' = Append(log, Event(t, "recommend"))
    /\ tpc' = [tpc EXCEPT ![t] = "served"]
    /\ UNCHANGED <<proc, handle, got, requestVars, rowVars>>

NextInit ==
    \/ BootScript
    \/ BootScriptFails
    \/ BootImported
    \/ \E t \in Threads : CheckEngine(t)
    \/ \E t \in Threads : ConstructOk(t)
    \/ \E t \in Threads : ConstructFails(t)
    \/ \E t \in Threads : ReturnEngine(t)
    \/ \E t \in Threads : Recommend(t)

SpecInit == Init /\ [][NextInit]_vars

\* C14 as stated: when requests call get_engine while the handle is unset and
\* no constructor's run fails, the constructor runs at most once and every
\* request is given the same instance.
C14_Original ==
    Events("fail") = {}
       => /\ Cardinality(Events("begin")) <= 1
          /\ \A t1, t2 \in Threads :
                (got[t1] # 0 /\ got[t2] # 0) => got[t1] = got[t2]

\* C18 as stated: once the engine's construction has failed, the constructor
\* is not run again, no request is given an engine, and no recommend call is
\* made: the failure is fatal, not retried on a later request.
C18_Original ==
    \A i, j \in 1..Len(log) :
        (i < j /\ log[i].e = "fail") => log[j].e \notin {"begin", "ok", "recommend"}

Recommended(t) == \E i \in Events("recommend") : log[i].t = t

\* C18, amended: a construction that fails yields no engine instance: it
\* leaves the shared handle as it was, the request that ran it is answered
\* with a server error and makes no recommend call, and every recommend call
\* is made on an instance a completed construction yielded.  The failure is
\* fatal only in the start-up call of the script, where the process ends
\* before it serves; a failure on a request is not: a later request finds the
\* handle unset and runs the constructor again.
C18_NoEngineFromFailedConstruction ==
    /\ handle = Cardinality(Events("ok"))
    /\ \A t \in Threads :
          /\ tpc[t] = "failed" => got[t] = 0 /\ ~Recommended(t)
          /\ Recommended(t) => got[t] \in 1..Cardinality(Events("ok"))
    /\ proc = "dead" =>
          /\ handle = 0
          /\ \A t \in Threads : tpc[t] = "idle"

\* a request's construction failed, and a later request built the engine and
\* was served
C18_Witness ==
    /\ tpc[1] = "failed" /\ tpc[2] = "served" /\ got[2] = 1
    /\ log = <<Event(1, "begin"), Event(1, "fail"), Event(2, "begin"),
               Event(2, "ok"), Event(2, "recommend")>>

----------------------------------------------------------------------------
(* The transform step of the catalog (modification.py).  The texts of a row
   are sequences of characters. *)

test_type_mapping ==
    ("A" :> "Ability & Aptitude") @@
    ("B" :> "Biodata & Situational Judgement") @@
    ("C" :> "Competencies") @@
    ("D" :> "Development & 360") @@
    ("E" :> "Assessment Exercises") @@
    ("K" :> "Knowledge & Skills") @@
    ("P" :> "Personality & Behaviour") @@
    ("S" :> "Simulations")

RECURSIVE expand_test_type(_)
expand_test_type(test_type_code) ==
    IF test_type_code = <<>> THEN <<>>
    ELSE (IF Head(test_type_code) \in DOMAIN test_type_mapping
          THEN <<test_type_mapping[Head(test_type_code)]>>
          ELSE <<>>) \o expand_test_type(Tail(test_type_code))

\* str.lower, on the letters the rows hold
LowerChar(c) ==
    CASE c = "T" -> "t" [] c = "R" -> "r" [] c = "U" -> "u" [] c = "E" -> "e"
      [] c = "F" -> "f" [] c = "Y" -> "y" [] OTHER -> c

lower(text) == [i \in 1..Len(text) |-> LowerChar(text[i])]

Digits == <<"0", "1", "2", "3", "4", "5", "6", "7", "8", "9">>
DigitValue(c) == (CHOOSE i \in 1..Len(Digits) : Digits[i] = c) - 1

\* str.isdigit
isdigit(text) ==
    text # <<>> /\ \A i \in 1..Len(text) : \E d \in 1..Len(Digits) : Digits[d] = text[i]

\* int(text) of a text of digits
RECURSIVE IntOfDigits(_)
IntOfDigits(text) ==
    IF text = <<>> THEN 0
    ELSE 10 * IntOfDigits(SubSeq(text, 1, Len(text) - 1)) + DigitValue(text[Len(text)])

FlagYesNoExact(text) == IF text = <<"t", "r", "u", "e">> THEN "Yes" ELSE "No"
\* "Yes" if text.lower() == "true" else "No"
FlagYesNo(text) == IF lower(text) = <<"t", "r", "u", "e">> THEN "Yes" ELSE "No"

\* lines 52-53: an incomplete row is skipped
SkipsRow(r) == r.url = "" \/ r.test_type = <<>>

\* lines 56-69
TransformRow(r) ==
    [url |-> r.url,
     adaptive_support |-> FlagYesNo(r.irt_support),
     description |-> r.description,
     duration |-> IF isdigit(r.assessment_length)
                  THEN IntOfDigits(r.assessment_length) ELSE 0,
     remote_support |-> FlagYesNo(r.remote_support),
     test_type |-> expand_test_type(r.test_type)]

\* str(list) of a list of names: the brackets, each name quoted
StrOfList(names) ==
    <<"[">> \o Join([i \in 1..Len(names) |-> <<"'", names[i], "'">>], ", ") \o <<"]">>

\* lines 72-81: the row handed to the writer
WrittenRow(n) == [n EXCEPT !.test_type = StrOfList(n.test_type)]

\* the rows read
CodeChars == DOMAIN test_type_mapping \cup {"k"}

\* the texts of at most n characters
RECURSIVE Texts(_, _)
Texts(chars, n) ==
    IF n = 0 THEN {<<>>}
    ELSE Texts(chars, n - 1) \cup {Append(t, c) : t \in Texts(chars, n - 1), c \in chars}

FlagTexts ==
    {<<"T", "r", "u", "e">>, <<"t", "r", "u", "e">>, <<"T", "R", "U", "E">>,
     <<"F", "a", "l", "s", "e">>, <<>>}

LengthTexts ==
    {<<"3", "0">>, <<"0", "7">>, <<"0">>, <<>>, <<"m", "a", "x">>,
     <<"-", "5">>, <<"3", ".", "5">>}

Rows ==
    [url : {"", "u1"},
     test_type : Texts(CodeChars, MaxCode),
     irt_support : FlagTexts,
     remote_support : FlagTexts,
     assessment_length : LengthTexts,
     description : {"d"}]

InitTransform ==
    /\ RequestInit /\ ProcessInit
    /\ row \in Rows
    /\ new_row = NoNewRow
    /\ written = NotWritten

\* the row is incomplete and nothing is written for it
SkipRow ==
    /\ written.state = ""
    /\ SkipsRow(row)
    /\ written' = [written EXCEPT !.state = "no"]
    /\ UNCHANGED <<row, new_row, requestVars, initVars>>

\* the row is transformed and written
WriteRow ==
    /\ written.state = ""
    /\ ~SkipsRow(row)
    /\ new_row' = TransformRow(row)
    /\ written' = [state |-> "yes", cells |-> WrittenRow(TransformRow(row))]
    /\ UNCHANGED <<row, requestVars, initVars>>

NextTransform ==
    \/ SkipRow
    \/ WriteRow

SpecTransform == InitTransform /\ [][NextTransform]_vars

\* the flag reads true, in whatever case its letters are
ReadsTrue(text) ==
    /\ Len(text) = 4
    /\ text[1] \in {"t", "T"} /\ text[2] \in {"r", "R"}
    /\ text[3] \in {"u", "U"} /\ text[4] \in {"e", "E"}

AllDigits(text) ==
    /\ text # <<>>
    /\ \A i \in 1..Len(text) :
          text[i] \in {"0", "1", "2", "3", "4", "5", "6", "7", "8", "9"}

\* the decimal digits of a natural number
RECURSIVE DigitsOf(_)
DigitsOf(n) ==
    IF n < 10 THEN <<Digits[n + 1]>>
    ELSE DigitsOf(n \div 10) \o <<Digits[(n % 10) + 1]>>

RECURSIVE StripZeros(_)
StripZeros(text) ==
    IF Len(text) > 1 /\ Head(text) = "0" THEN StripZeros(Tail(text)) ELSE text

CodedLetters == {"A", "B", "C", "D", "E", "K", "P", "S"}
IsCoded(c) == c \in CodedLetters
Coded(code) == SelectSeq(code, IsCoded)

\* C16: for every row the transform step writes (its url and its test_type
\* not empty), adaptive_support and remote_support are each "Yes" or "No",
\* "Yes" exactly when the source flag reads true in whatever case; duration
\* is the integer value of assessment_length when it is all digits and 0
\* otherwise; and test_type lists, in order, the category name of every
\* coded letter (A, B, C, D, E, K, P, S) of the source code, none lost.
C16_RowTransformed ==
    written.state = "yes" =>
        /\ row.url # "" /\ row.test_type # <<>>
        /\ new_row.url = row.url
        /\ new_row.adaptive_support \in {"Yes", "No"}
        /\ new_row.adaptive_support = "Yes" <=> ReadsTrue(row.irt_support)
        /\ new_row.remote_support \in {"Yes", "No"}
        /\ new_row.remote_support = "Yes" <=> ReadsTrue(row.remote_support)
        /\ new_row.duration \in Nat
        /\ IF AllDigits(row.assessment_length)
           THEN DigitsOf(new_row.duration) = StripZeros(row.assessment_length)
           ELSE new_row.duration = 0
        /\ Len(new_row.test_type) = Len(Coded(row.test_type))
        /\ \A i \in 1..Len(new_row.test_type) :
              new_row.test_type[i] = test_type_mapping[Coded(row.test_type)[i]]
        /\ written.cells.test_type = StrOfList(new_row.test_type)

C16_Witness ==
    /\ written.state = "yes"
    /\ row.test_type = <<"K", "P">>
    /\ row.irt_support = <<"T", "R", "U", "E">>
    /\ row.remote_support = <<"F", "a", "l", "s", "e">>
    /\ row.assessment_length = <<"0", "7">>
    /\ new_row.adaptive_support = "Yes" /\ new_row.remote_support = "No"
    /\ new_row.duration = 7
    /\ new_row.test_type = <<"Knowledge & Skills", "Personality & Behaviour">>

====
